---- MODULE Spec2Model ----
(***************************************************************************)
(* Model of la/flarry.py: align (lines 13-209), union (211-250) and        *)
(* intersection (252-292).                                                 *)
(*                                                                         *)
(* A larry is [x |-> buffer id, label |-> sequence of list objects]; a     *)
(* list object is [oid |-> identity, items |-> sequence of labels]; a      *)
(* buffer lives in `heap` under its id and is [dtype, shape, data], data a *)
(* function from 0-based position tuples to cell values.  Two names alias  *)
(* the same storage exactly when they hold the same id.                    *)
(***************************************************************************)
EXTENDS Integers, Sequences, FiniteSets, TLC

\* ------------------------------------------------------------------ bounds
NumLabels == 2      \* label values are 1..NumLabels
MaxLen == 2         \* longest input label list
MaxArgs == 2        \* most arguments passed to union / intersection

Labels == 1..NumLabels

\* ------------------------------------------------------- values and lists
\* Cell values are integers.  Data cells are >= 100, the explicit fill 0 is
\* 0 and the markers are negative codes.
nan == 0 - 1                \* la.nan, the float missing marker
NotImplemented == 0 - 2     \* missing_marker's answer for int (no marker)

Range(s) == {s[i] : i \in DOMAIN s}
IsUnique(s) == \A i, j \in DOMAIN s : s[i] = s[j] => i = j
ListsUpTo(n) == UNION {{s \in [1..k -> Labels] : IsUnique(s)} : k \in 0..n}
LabelLists == ListsUpTo(MaxLen)

\* list(S); .sort(): the ascending list of a set
RECURSIVE sorted(_)
sorted(S) ==
    IF S = {} THEN <<>>
    ELSE LET m == CHOOSE x \in S : \A y \in S : x <= y
         IN  <<m>> \o sorted(S \ {m})

\* list.index, 0-based
index(list, v) == (CHOOSE i \in DOMAIN list : list[i] = v) - 1

\* la.flabel.listmap: position in list1 of every element of list2
listmap(list1, list2) == [i \in DOMAIN list2 |-> index(list1, list2[i])]

\* la.flabel.listmap_fill: as listmap, with `fill` where list1 lacks the
\* element, and the (0-based) positions of list2 where that happened
listmap_fill(list1, list2, fill) ==
    [idx  |-> [i \in DOMAIN list2 |->
                  IF list2[i] \in Range(list1)
                  THEN index(list1, list2[i]) ELSE fill],
     miss |-> {i - 1 : i \in {k \in DOMAIN list2 : list2[k] \notin Range(list1)}}]

\* la.missing.missing_marker by element type
missing_marker(dtype) == IF dtype = "float" THEN nan ELSE NotImplemented

\* can value v be stored in a buffer of this element type
Representable(v, dtype) ==
    IF dtype = "int" THEN v \notin {nan, NotImplemented}
    ELSE v # NotImplemented

\* ----------------------------------------------------------------- buffers
MaxOf(shape) ==
    IF shape = <<>> THEN 0
    ELSE CHOOSE m \in Range(shape) : \A e \in Range(shape) : e <= m

\* the position tuples of a buffer of this shape (positions are 0-based)
Idx(shape) ==
    {t \in [DOMAIN shape -> 0..MaxOf(shape)] : \A a \in DOMAIN shape : t[a] < shape[a]}

\* ndarray.take(idx, ax) raises IndexError on a position outside the axis
TakeOK(buf, idx, a) == \A i \in DOMAIN idx : idx[i] >= 0 /\ idx[i] < buf.shape[a]

\* ndarray.take(idx, ax): a new buffer, axis a re-indexed by idx
Take(buf, idx, a) ==
    LET shape == [buf.shape EXCEPT ![a] = Len(idx)]
    IN  [dtype |-> buf.dtype,
         shape |-> shape,
         data  |-> [t \in Idx(shape) |-> buf.data[[t EXCEPT ![a] = idx[t[a] + 1]]]]]

\* x[index] = v with index[ax] = miss and full slices elsewhere
Fill(buf, miss, a, v) ==
    [buf EXCEPT !.data = [t \in DOMAIN buf.data |->
                             IF t[a] \in miss THEN v ELSE buf.data[t]]]

\* mutant: the assignment accepts any value
FillNeverRaises(buf, miss, v, raiseEmpty) == FALSE

\* The assignment raises TypeError when v does not fit the element type.
\* With no position to write, whether numpy still converts v (and raises)
\* is left open: raiseEmpty is either outcome.
FillRaises(buf, miss, v, raiseEmpty) ==
    /\ ~Representable(v, buf.dtype)
    /\ (miss # {} \/ raiseEmpty)

\* ------------------------------------------------------------------ inputs
Cell(k, t) == 100 * k + 10 * t[1] + (IF Len(t) > 1 THEN t[2] ELSE 0)

Shape(labs) == [a \in DOMAIN labs |-> Len(labs[a])]

InBuf(k, labs, dtype) ==
    [dtype |-> dtype,
     shape |-> Shape(labs),
     data  |-> [t \in Idx(Shape(labs)) |-> Cell(k, t)]]

\* input larry k: buffer id k, list objects 10k+1, 10k+2, ...
InLarry(k, labs) ==
    [x |-> k, label |-> [a \in DOMAIN labs |-> [oid |-> 10 * k + a, items |-> labs[a]]]]

NoLarry == [x |-> 0, label |-> <<>>]

Modes == {"inner", "outer", "left", "right", "bogus"}
DTypes == {"int", "float"}
Default == [kind |-> "default", v |-> 0]
Fills == {Default, [kind |-> "value", v |-> 0], [kind |-> "value", v |-> nan]}
TypeConfigs == [dt1 : DTypes, dt2 : DTypes, fill : Fills, cast : BOOLEAN]

VARIABLES
    op,                     \* "align", "union" or "intersection"
    in1, in2,               \* the caller's two larrys
    injoin, fill, cast,     \* the caller's join, fill and cast arguments
    heap, nextId,           \* buffers by id; next unused object identity
    lar1, lar2,             \* align's locals (rebound by astype)
    join, miss1, miss2,
    label, x1, x2, x1isview, x2isview, ax,
    lar3, lar4,             \* the returned pair
    fresh, written, takes,  \* history: buffers made by take, buffers
                            \* assigned by a fill, (extent, idx) of each take
    axis, args, rc,         \* union / intersection: arguments and result
    pc, err

vars == <<op, in1, in2, injoin, fill, cast, heap, nextId, lar1, lar2, join,
          miss1, miss2, label, x1, x2, x1isview, x2isview, ax, lar3, lar4,
          fresh, written, takes, axis, args, rc, pc, err>>

callerVars == <<op, in1, in2, injoin, fill, cast, axis, args>>
loopVars == <<lar1, lar2, join, miss1, miss2, label, x1, x2, x1isview, x2isview, ax>>
histVars == <<fresh, written, takes>>

ndim == Len(in2.label)

\* the state in which a call is about to start
Start(o, l1, l2, h, j, f, c, axs, as) ==
    /\ op = o /\ in1 = l1 /\ in2 = l2 /\ heap = h
    /\ injoin = j /\ fill = f /\ cast = c /\ axis = axs /\ args = as
    /\ nextId = 31
    /\ lar1 = NoLarry /\ lar2 = NoLarry /\ join = <<>>
    /\ miss1 = 0 /\ miss2 = 0 /\ label = <<>>
    /\ x1 = 0 /\ x2 = 0 /\ x1isview = FALSE /\ x2isview = FALSE /\ ax = 0
    /\ lar3 = NoLarry /\ lar4 = NoLarry
    /\ fresh = {} /\ written = {} /\ takes = {}
    /\ rc = <<>> /\ pc = "call" /\ err = ""

StartAlign(labs1, labs2, tc, j) ==
    Start("align", InLarry(1, labs1), InLarry(2, labs2),
          (1 :> InBuf(1, labs1, tc.dt1)) @@ (2 :> InBuf(2, labs2, tc.dt2)),
          j, tc.fill, tc.cast, 0, <<>>)

\* align(lar, lar): both arguments are the same object
StartAlignSame(labs, tc, j) ==
    Start("align", InLarry(1, labs), InLarry(1, labs),
          (1 :> InBuf(1, labs, tc.dt1)), j, tc.fill, tc.cast, 0, <<>>)

JoinStr == [kind : {"str"}, modes : [1..1 -> Modes]]
JoinList(n) == [kind : {"list"}, modes : [1..n -> Modes]]
JoinOther == [kind |-> "other", modes |-> <<>>]

\* rank-1 inputs: every pair of label lists, every element-type / fill /
\* cast setting, the join argument as a string, a list, a list of the wrong
\* length and a value of another type
JoinArgs1 ==
    JoinStr \cup {[kind |-> "list", modes |-> <<"outer">>],
                  [kind |-> "list", modes |-> <<"inner", "inner">>],
                  JoinOther}
InitRank1 ==
    \E l1 \in LabelLists, l2 \in LabelLists, tc \in TypeConfigs, j \in JoinArgs1 :
        StartAlign(<<l1>>, <<l2>>, tc, j)

\* rank-2 inputs: rows one label shorter than the bound, columns from a
\* fixed family (equal, equal but unsorted, overlapping, empty), every pair
\* of per-axis modes, and the element-type settings that widen an input,
\* leave it without a marker, or pass a fill it cannot hold
Rows == ListsUpTo(MaxLen - 1)
Cols == {<<>>, <<1>>, <<2, 1>>}
Rank2Types ==
    {[dt1 |-> "int", dt2 |-> "float", fill |-> Default, cast |-> TRUE],
     [dt1 |-> "float", dt2 |-> "int", fill |-> Default, cast |-> FALSE],
     [dt1 |-> "int", dt2 |-> "float", fill |-> [kind |-> "value", v |-> nan], cast |-> FALSE]}
InitRank2 ==
    \E r1 \in Rows, r2 \in Rows, c1 \in Cols, c2 \in Cols,
       tc \in Rank2Types, j \in JoinList(2) :
        StartAlign(<<r1, c1>>, <<r2, c2>>, tc, j)

\* the two inputs are one object, or differ in rank
InitOdd ==
    \E l1 \in Rows, c1 \in Cols, tc \in Rank2Types, j \in JoinStr :
        \/ StartAlignSame(<<l1>>, tc, j)
        \/ StartAlignSame(<<l1, c1>>, tc, j)
        \/ StartAlign(<<l1>>, <<l1, c1>>, tc, j)

\* an argument of union / intersection: a larry, or some other object that
\* may or may not have a `label` attribute
Arg == [islarry : BOOLEAN, haslabel : {TRUE}, label : [1..1 -> LabelLists]]
       \cup {[islarry |-> FALSE, haslabel |-> FALSE, label |-> <<>>]}
ArgLists == UNION {[1..n -> Arg] : n \in 1..MaxArgs}

InitSet ==
    \E o \in {"union", "intersection"}, as \in ArgLists :
        Start(o, NoLarry, NoLarry, <<>>, JoinOther, Default, TRUE, 0, as)

Init == InitRank1 \/ InitRank2 \/ InitOdd \/ InitSet

\* ------------------------------------------------------------------- align
Raise(e) == pc' = "error" /\ err' = e

\* larry.astype(float): a new larry, new buffer of the new element type with
\* the same values, new list objects
astype(lar, dtype, h, nid) ==
    [lar    |-> [x |-> nid,
                 label |-> [a \in DOMAIN lar.label |->
                               [oid |-> nid + a, items |-> lar.label[a].items]]],
     heap   |-> h @@ (nid :> [h[lar.x] EXCEPT !.dtype = dtype]),
     nextId |-> nid + Len(lar.label) + 1]

\* lines 110-117 for one input: its marker, after the cast if one is made
Resolve(lar, h, nid) ==
    LET m == missing_marker(h[lar.x].dtype)
    IN  IF m = NotImplemented /\ cast
        THEN LET c == astype(lar, "float", h, nid)
             IN  [lar |-> c.lar, miss |-> missing_marker("float"),
                  heap |-> c.heap, nextId |-> c.nextId]
        ELSE [lar |-> lar, miss |-> m, heap |-> h, nextId |-> nid]

\* lines 108-129: markers, then the loop's initial locals
EnterLoop(j) ==
    LET r1 == IF fill.kind = "default" THEN Resolve(in1, heap, nextId)
              ELSE [lar |-> in1, miss |-> fill.v, heap |-> heap, nextId |-> nextId]
        r2 == IF fill.kind = "default" THEN Resolve(in2, r1.heap, r1.nextId)
              ELSE [lar |-> in2, miss |-> fill.v, heap |-> heap, nextId |-> nextId]
    IN  /\ join' = j
        /\ lar1' = r1.lar /\ miss1' = r1.miss
        /\ lar2' = r2.lar /\ miss2' = r2.miss
        /\ heap' = r2.heap /\ nextId' = r2.nextId
        /\ label' = <<>>
        /\ x1' = r1.lar.x /\ x2' = r2.lar.x
        /\ x1isview' = TRUE /\ x2isview' = TRUE
        /\ ax' = 0
        /\ pc' = "loop"
        /\ UNCHANGED err

\* lines 91-129
AlignEnter ==
    /\ op = "align" /\ pc = "call"
    /\ IF Len(in1.label) # ndim
       THEN Raise("ValueError: ndim") /\ UNCHANGED <<loopVars, heap, nextId>>
       ELSE IF injoin.kind = "str"
       THEN EnterLoop([a \in 1..ndim |-> injoin.modes[1]])
       ELSE IF injoin.kind = "list"
       THEN IF Len(injoin.modes) # ndim
            THEN Raise("ValueError: join length") /\ UNCHANGED <<loopVars, heap, nextId>>
            ELSE EnterLoop(injoin.modes)
       ELSE Raise("TypeError: join") /\ UNCHANGED <<loopVars, heap, nextId>>
    /\ UNCHANGED <<callerVars, histVars, lar3, lar4, rc>>

\* the loop body's working record at the top of an iteration
Cur ==
    [err |-> "", heap |-> heap, nextId |-> nextId, x1 |-> x1, x2 |-> x2,
     x1isview |-> x1isview, x2isview |-> x2isview, list3 |-> <<>>,
     fresh |-> fresh, written |-> written, takes |-> takes]

\* mutant: the gather resizes the source buffer in place
DoTakeInPlace(r, side, idx, a) ==
    LET src == IF side = 1 THEN r.x1 ELSE r.x2
        buf == r.heap[src]
    IN  IF r.err # "" THEN r
        ELSE IF ~TakeOK(buf, idx, a) THEN [r EXCEPT !.err = "IndexError"]
        ELSE [r EXCEPT !.heap[src] = Take(buf, idx, a)]

\* x = x.take(idx, ax) on side 1 or 2
DoTake(r, side, idx, a) ==
    LET src == IF side = 1 THEN r.x1 ELSE r.x2
        buf == r.heap[src]
        new == r.nextId
        rec == [r EXCEPT !.takes = @ \cup {[extent |-> buf.shape[a], idx |-> idx]}]
    IN  IF r.err # "" THEN r
        ELSE IF ~TakeOK(buf, idx, a) THEN [rec EXCEPT !.err = "IndexError"]
        ELSE LET got == [rec EXCEPT !.heap = @ @@ (new :> Take(buf, idx, a)),
                                    !.nextId = new + 1,
                                    !.fresh = @ \cup {new}]
             IN  IF side = 1 THEN [got EXCEPT !.x1 = new] ELSE [got EXCEPT !.x2 = new]

\* mutant: the fill step is left out
DoFillSkipped(r, side, miss, a, v, raiseEmpty) == r

\* index[ax] = miss; try: x[index] = v; except TypeError: raise TypeError
DoFill(r, side, miss, a, v, raiseEmpty) ==
    LET id == IF side = 1 THEN r.x1 ELSE r.x2
        buf == r.heap[id]
    IN  IF r.err # "" THEN r
        ELSE IF FillRaises(buf, miss, v, raiseEmpty)
        THEN [r EXCEPT !.err = "TypeError: fill"]
        ELSE [r EXCEPT !.heap[id] = Fill(buf, miss, a, v),
                       !.written = @ \cup {id}]

\* mutant: the intersection is taken in list1's order and never sorted
InnerList3Unsorted(list1, list2) == SelectSeq(list1, LAMBDA v : v \in Range(list2))

\* mutant: a left join sorts its labels like inner and outer do
LeftList3Sorted(list1, list2) == sorted(Range(list1))

\* lines 140-141 and 152-153: the output labels of a join by set algebra
InnerList3(list1, list2) == sorted(Range(list1) \cap Range(list2))
OuterList3(list1, list2) == sorted(Range(list1) \cup Range(list2))
\* lines 171 and 184
LeftList3(list1, list2) == list1
RightList3(list1, list2) == list2
\* lines 137, 149, 172, 185: the two lists differ, so the axis is gathered
Differ(list1, list2) == list1 # list2

\* lines 136-147
InnerAxis(list1, list2, a) ==
    IF ~Differ(list1, list2) THEN [Cur EXCEPT !.list3 = list1]
    ELSE LET list3 == InnerList3(list1, list2)
             r1 == DoTake(Cur, 1, listmap(list1, list3), a)
             r2 == DoTake(r1, 2, listmap(list2, list3), a)
         IN  [r2 EXCEPT !.list3 = list3, !.x1isview = FALSE, !.x2isview = FALSE]

\* lines 148-169
OuterAxis(list1, list2, a, raiseEmpty) ==
    IF ~Differ(list1, list2) THEN [Cur EXCEPT !.list3 = list1]
    ELSE LET list3 == OuterList3(list1, list2)
             m1 == listmap_fill(list1, list3, 0)
             m2 == listmap_fill(list2, list3, 0)
             r1 == DoTake(Cur, 1, m1.idx, a)
             r2 == DoTake(r1, 2, m2.idx, a)
             r3 == DoFill(r2, 1, m1.miss, a, miss1, raiseEmpty)
             r4 == DoFill(r3, 2, m2.miss, a, miss2, raiseEmpty)
         IN  [r4 EXCEPT !.list3 = list3, !.x1isview = FALSE, !.x2isview = FALSE]

\* mutant: a left join relabels without gathering the second buffer
LeftAxisNoGather(list1, list2, a, raiseEmpty) == [Cur EXCEPT !.list3 = list1]

\* lines 170-182
LeftAxis(list1, list2, a, raiseEmpty) ==
    LET list3 == LeftList3(list1, list2)
    IN  IF ~Differ(list1, list2) THEN [Cur EXCEPT !.list3 = list3]
        ELSE LET m2 == listmap_fill(list2, list3, 0)
                 r1 == DoTake(Cur, 2, m2.idx, a)
                 r2 == DoFill(r1, 2, m2.miss, a, miss2, raiseEmpty)
             IN  [r2 EXCEPT !.list3 = list3, !.x2isview = FALSE]

\* lines 183-195
RightAxis(list1, list2, a, raiseEmpty) ==
    LET list3 == RightList3(list1, list2)
    IN  IF ~Differ(list1, list2) THEN [Cur EXCEPT !.list3 = list3]
        ELSE LET m1 == listmap_fill(list1, list3, 0)
                 r1 == DoTake(Cur, 1, m1.idx, a)
                 r2 == DoFill(r1, 1, m1.miss, a, miss1, raiseEmpty)
             IN  [r2 EXCEPT !.list3 = list3, !.x1isview = FALSE]

\* mutant: an unrecognized mode falls through to the inner join
AxisBodyElseInner(raiseEmpty) ==
    LET a == ax + 1
        list1 == lar1.label[a].items
        list2 == lar2.label[a].items
        joinax == join[a]
    IN  IF joinax = "outer" THEN OuterAxis(list1, list2, a, raiseEmpty)
        ELSE IF joinax = "left" THEN LeftAxis(list1, list2, a, raiseEmpty)
        ELSE IF joinax = "right" THEN RightAxis(list1, list2, a, raiseEmpty)
        ELSE InnerAxis(list1, list2, a)

\* lines 133-197: one iteration, up to label.append
AxisBody(raiseEmpty) ==
    LET a == ax + 1
        list1 == lar1.label[a].items
        list2 == lar2.label[a].items
        joinax == join[a]
    IN  IF joinax = "inner" THEN InnerAxis(list1, list2, a)
        ELSE IF joinax = "outer" THEN OuterAxis(list1, list2, a, raiseEmpty)
        ELSE IF joinax = "left" THEN LeftAxis(list1, list2, a, raiseEmpty)
        ELSE IF joinax = "right" THEN RightAxis(list1, list2, a, raiseEmpty)
        ELSE [Cur EXCEPT !.err = "ValueError: join type not recognized"]

\* lines 132-198: one iteration of the axis loop
AlignAxis ==
    /\ op = "align" /\ pc = "loop" /\ ax < ndim
    /\ \E raiseEmpty \in BOOLEAN :
        LET r == AxisBody(raiseEmpty)
        IN  /\ heap' = r.heap
            /\ x1' = r.x1 /\ x2' = r.x2
            /\ fresh' = r.fresh /\ written' = r.written /\ takes' = r.takes
            /\ IF r.err # ""
               THEN /\ Raise(r.err)
                    /\ nextId' = r.nextId
                    /\ UNCHANGED <<label, ax, x1isview, x2isview>>
               ELSE /\ label' = Append(label, [oid |-> r.nextId, items |-> r.list3])
                    /\ nextId' = r.nextId + 1
                    /\ x1isview' = r.x1isview /\ x2isview' = r.x2isview
                    /\ ax' = ax + 1
                    /\ pc' = IF ax + 1 = ndim THEN "make" ELSE "loop"
                    /\ UNCHANGED err
    /\ UNCHANGED <<callerVars, lar1, lar2, join, miss1, miss2, lar3, lar4, rc>>

\* mutant: the final copy is left out
NeverCopy(isview) == FALSE

\* x.copy() when the view flag is set (lines 201-202, 205-206)
CopyIfView(isview) == isview

\* lines 200-209
AlignMake ==
    /\ op = "align" /\ pc = "make"
    /\ LET c1 == CopyIfView(x1isview)
           id1 == IF c1 THEN nextId ELSE x1
           h1 == IF c1 THEN heap @@ (id1 :> heap[x1]) ELSE heap
           n1 == IF c1 THEN nextId + 1 ELSE nextId
           label4 == [a \in DOMAIN label |-> [oid |-> n1 + a - 1, items |-> label[a].items]]
           n2 == n1 + Len(label)
           c2 == CopyIfView(x2isview)
           id2 == IF c2 THEN n2 ELSE x2
           h2 == IF c2 THEN h1 @@ (id2 :> h1[x2]) ELSE h1
           n3 == IF c2 THEN n2 + 1 ELSE n2
       IN  /\ x1' = id1 /\ x2' = id2
           /\ heap' = h2 /\ nextId' = n3
           /\ lar3' = [x |-> id1, label |-> label]
           /\ label' = label4
           /\ lar4' = [x |-> id2, label |-> label4]
    /\ pc' = "done"
    /\ UNCHANGED <<callerVars, histVars, lar1, lar2, join, miss1, miss2,
                   x1isview, x2isview, ax, rc, err>>

\* ------------------------------------------------- union and intersection
\* lines 243-247: the loop over args from position i with accumulator acc;
\* the result is [err, rc]
RECURSIVE UnionLoop(_, _)
UnionLoop(i, acc) ==
    IF i > Len(args) THEN [err |-> "", rc |-> acc]
    ELSE IF args[i].islarry
    THEN UnionLoop(i + 1, Range(args[i].label[axis + 1]) \cup acc)
    ELSE [err |-> "TypeError: not a larry", rc |-> {}]

\* lines 284-289
RECURSIVE IntersectionLoop(_, _)
IntersectionLoop(i, acc) ==
    IF i > Len(args) THEN [err |-> "", rc |-> acc]
    ELSE IF args[i].islarry
    THEN IntersectionLoop(i + 1, Range(args[i].label[axis + 1]) \cap acc)
    ELSE [err |-> "TypeError: not a larry", rc |-> {}]

\* line 283: rc = frozenset(args[0].label[axis]), whatever args[0] is
IntersectionBody ==
    IF ~args[1].haslabel THEN [err |-> "AttributeError", rc |-> {}]
    ELSE IntersectionLoop(2, Range(args[1].label[axis + 1]))

Return(r) ==
    /\ IF r.err # "" THEN Raise(r.err) /\ UNCHANGED rc
       ELSE pc' = "done" /\ rc' = sorted(r.rc) /\ UNCHANGED err
    /\ UNCHANGED <<callerVars, loopVars, histVars, heap, nextId, lar3, lar4>>

\* lines 242-250
Union == op = "union" /\ pc = "call" /\ Return(UnionLoop(1, {}))

\* lines 283-292
Intersection == op = "intersection" /\ pc = "call" /\ Return(IntersectionBody)

Next == AlignEnter \/ AlignAxis \/ AlignMake \/ Union \/ Intersection

Spec == Init /\ [][Next]_vars


\* ------------------------------------------------------------------ claims
Done == op = "align" /\ pc = "done"
Axes == 1..ndim
In(k) == IF k = 1 THEN in1 ELSE in2
Out(k) == IF k = 1 THEN lar3 ELSE lar4
L1(a) == in1.label[a].items
L2(a) == in2.label[a].items
Out3(a) == lar3.label[a].items
Out4(a) == lar4.label[a].items
InDtype(k) == heap[In(k).x].dtype

Ascending(s) == \A i, j \in DOMAIN s : i < j => s[i] < s[j]
\* s lists the set S in ascending order, each element once
IsSortedSet(s, S) == Ascending(s) /\ Range(s) = S

\* both outputs carry s on axis a
BothOut(a, s) == Out3(a) = s /\ Out4(a) = s
BothOutSortedSet(a, S) == IsSortedSet(Out3(a), S) /\ IsSortedSet(Out4(a), S)

\* C1 (as claimed): on every axis joined inner the output label list is the
\* ascending-sorted intersection of the two input label lists, on every axis
\* joined outer the ascending-sorted union, also when the two lists are
\* equal and not ascending.
C1_SortedAlways ==
    Done => \A a \in Axes :
        /\ join[a] = "inner" => BothOutSortedSet(a, Range(L1(a)) \cap Range(L2(a)))
        /\ join[a] = "outer" => BothOutSortedSet(a, Range(L1(a)) \cup Range(L2(a)))

\* C1 (amended): when the two label lists of an inner / outer axis differ the
\* output label list is the ascending-sorted intersection / union; when they
\* are equal it is that common list in its original order.
C1_SortedWhenDifferent ==
    Done => \A a \in Axes :
        /\ join[a] \in {"inner", "outer"} /\ L1(a) = L2(a) => BothOut(a, L1(a))
        /\ join[a] = "inner" /\ L1(a) # L2(a) =>
               BothOutSortedSet(a, Range(L1(a)) \cap Range(L2(a)))
        /\ join[a] = "outer" /\ L1(a) # L2(a) =>
               BothOutSortedSet(a, Range(L1(a)) \cup Range(L2(a)))

\* C1 witness: an inner join of <<2, 1>> with <<1, 2>> returned <<1, 2>>.
C1_Witness ==
    /\ Done
    /\ \E a \in Axes :
        /\ join[a] = "inner" /\ L1(a) = <<2, 1>> /\ L2(a) = <<1, 2>>
        /\ Out3(a) = <<1, 2>>

\* the labels of output k at position tuple t, whether input k has them all,
\* and where input k holds them
LabelsAt(k, t) == [a \in DOMAIN t |-> Out(k).label[a].items[t[a] + 1]]
Present(k, labs) == \A a \in DOMAIN labs : labs[a] \in Range(In(k).label[a].items)
SourcePos(k, labs) ==
    [a \in DOMAIN labs |->
        (CHOOSE p \in 0..MaxLen : In(k).label[a].items[p + 1] = labs[a])]
\* the marker align resolves for input k
Marker(k) ==
    IF fill.kind = "value" THEN fill.v
    ELSE IF InDtype(k) = "float" \/ cast THEN nan ELSE NotImplemented
AllOuter == \A a \in Axes : join[a] = "outer"

\* C2: after an outer join on every axis, every cell of an output whose
\* labels the source input has equals the source cell at those labels, and
\* every other cell equals the input's resolved missing marker.
C2_OuterCells ==
    Done /\ AllOuter => \A k \in {1, 2} :
        LET out == heap[Out(k).x]
        IN  \A t \in DOMAIN out.data :
                LET labs == LabelsAt(k, t)
                IN  IF Present(k, labs)
                    THEN out.data[t] = heap[In(k).x].data[SourcePos(k, labs)]
                    ELSE out.data[t] = Marker(k)

\* C2 witness: a rank-2 outer join gathered both axes and returned cells
\* holding markers and cells holding source values.
C2_Witness ==
    /\ Done /\ AllOuter /\ ndim = 2
    /\ L1(1) # L2(1) /\ L1(2) # L2(2)
    /\ \E t \in DOMAIN heap[lar3.x].data : heap[lar3.x].data[t] = Marker(1)
    /\ \E t \in DOMAIN heap[lar3.x].data : heap[lar3.x].data[t] >= 100
    /\ \E t \in DOMAIN heap[lar4.x].data : heap[lar4.x].data[t] = Marker(2)

\* C3: on an axis joined left both outputs carry the first input's label list
\* in its original order, on an axis joined right the second input's.
C3_LeftRightOrder ==
    Done => \A a \in Axes :
        /\ join[a] = "left" => BothOut(a, L1(a))
        /\ join[a] = "right" => BothOut(a, L2(a))

\* C3 witness: a left join of the unsorted <<2, 1>> with another list
\* returned <<2, 1>>.
C3_Witness ==
    /\ Done
    /\ \E a \in Axes :
        /\ join[a] = "left" /\ L1(a) = <<2, 1>> /\ L2(a) # L1(a)
        /\ Out3(a) = <<2, 1>>

Oids(lar) == {lar.label[a].oid : a \in DOMAIN lar.label}

\* C4: the two returned buffers are distinct from each other and from both
\* input buffers, the returned label lists are distinct objects from each
\* other's and the inputs'; a working buffer that still is an input buffer
\* when the loop ends still has its view flag set.
C4_NonAliasing ==
    /\ Done =>
        /\ lar3.x # lar4.x
        /\ {lar3.x, lar4.x} \cap {in1.x, in2.x} = {}
        /\ Oids(lar3) \cap Oids(lar4) = {}
        /\ (Oids(lar3) \cup Oids(lar4)) \cap (Oids(in1) \cup Oids(in2)) = {}
        /\ Cardinality(Oids(lar3)) = ndim /\ Cardinality(Oids(lar4)) = ndim
    /\ op = "align" /\ pc = "make" =>
        /\ x1 \in {in1.x, in2.x} => x1isview
        /\ x2 \in {in1.x, in2.x} => x2isview

\* C4 witness: a call returned with only the first buffer gathered and the
\* second, type-widened, still flagged a view.
C4_Witness ==
    /\ Done /\ x2isview /\ ~x1isview
    /\ InDtype(2) = "int" /\ lar2.x # in2.x

\* C5: no step of align changes an input: the two input larrys, their
\* buffers' contents and element types stay as they were, and every buffer
\* a fill assigns to was made by a take of this call.
C5_InputsUnchanged ==
    [][op = "align" =>
          /\ in1' = in1 /\ in2' = in2
          /\ heap'[in1.x] = heap[in1.x] /\ heap'[in2.x] = heap[in2.x]
          /\ written' \subseteq fresh'
          /\ written' \cap {in1.x, in2.x} = {}]_vars

\* C5 witness: a call returned after a fill wrote markers.
C5_Witness ==
    /\ Done /\ written # {}
    /\ \E t \in DOMAIN heap[lar4.x].data : heap[lar4.x].data[t] = Marker(2)

\* the call's preconditions, read off the caller's arguments
SameRank == Len(in1.label) = Len(in2.label)
GoodLength ==
    /\ injoin.kind \in {"str", "list"}
    /\ injoin.kind = "list" => Len(injoin.modes) = ndim
JoinAt(a) == IF injoin.kind = "str" THEN injoin.modes[1] ELSE injoin.modes[a]
ValidJoin == GoodLength /\ \A a \in Axes : JoinAt(a) # "bogus"
Terminal == pc \in {"done", "error"}
IsTypeError(e) == e \in {"TypeError: fill", "TypeError: join"}
IntInput(k) == InDtype(k) = "int"
\* no input label list is empty, so no gather can run off an empty axis
NonEmptyLabels ==
    \A a \in Axes : Len(in1.label[a].items) > 0 /\ Len(in2.label[a].items) > 0

\* C6 (as claimed): with fill 'default', cast false and an input whose element
\* type has no missing marker, align ends in a type error and returns
\* nothing, whatever the (valid) join specification and the (non-empty)
\* label lists.
C6_TypeErrorWithoutCast ==
    /\ op = "align" /\ SameRank /\ ValidJoin /\ NonEmptyLabels /\ Terminal
    /\ fill.kind = "default" /\ ~cast /\ (IntInput(1) \/ IntInput(2))
    => pc = "error" /\ IsTypeError(err)

\* axis a runs a fill statement: it is not inner and its two lists differ
RunsFill(a) == JoinAt(a) \in {"outer", "left", "right"} /\ L1(a) # L2(a)
\* axis a has to write a marker into the buffer of input k: the output
\* labels of the axis include one that input k lacks
NeedsMarker(k, a) ==
    IF k = 1
    THEN JoinAt(a) \in {"outer", "right"} /\ ~(Range(L2(a)) \subseteq Range(L1(a)))
    ELSE JoinAt(a) \in {"outer", "left"} /\ ~(Range(L1(a)) \subseteq Range(L2(a)))
\* an explicit fill that some integer-typed input cannot hold, no casting
BadFill ==
    /\ op = "align" /\ SameRank /\ ValidJoin
    /\ fill.kind = "value" /\ ~cast /\ ~Representable(fill.v, "int")
    /\ (IntInput(1) \/ IntInput(2))

\* C7 (as claimed): an explicit fill that an integer-typed input cannot hold,
\* with casting disabled, makes align end in a type error with no output, for
\* every valid join specification and every pair of (non-empty) label lists.
C7_AlwaysTypeError ==
    BadFill /\ NonEmptyLabels /\ Terminal => pc = "error" /\ IsTypeError(err)

\* C7 (amended): with such a fill align returns nothing whenever some axis has
\* to write the fill into an integer-typed input's buffer; what it raises is
\* the fill type error, or the index error of a gather that failed first, and
\* the type error comes only from an axis that runs a fill statement; when no
\* axis runs a fill statement align raises nothing.
C7_TypeErrorWhenFilling ==
    BadFill =>
        /\ pc = "done" =>
              \A k \in {1, 2}, a \in Axes : ~(IntInput(k) /\ NeedsMarker(k, a))
        /\ pc = "error" =>
              /\ err \in {"TypeError: fill", "IndexError"}
              /\ RunsFill(ax + 1)
        /\ (\A a \in Axes : ~RunsFill(a)) => pc # "error"

\* C7 witness: a fill into an integer-typed buffer raised the type error.
C7_Witness ==
    /\ BadFill /\ pc = "error" /\ err = "TypeError: fill"
    /\ \E k \in {1, 2} : IntInput(k) /\ NeedsMarker(k, ax + 1)

HasBogus == \E a \in Axes : JoinAt(a) = "bogus"
FirstBogus == CHOOSE a \in Axes : JoinAt(a) = "bogus" /\ \A b \in 1..(a - 1) : JoinAt(b) # "bogus"
JoinError == "ValueError: join type not recognized"

\* C8 (as claimed): with equal ranks and a join specification of the right
\* length, an unrecognized mode on any axis makes align end in the error
\* 'join type not recognized', whatever the other axes are (here with no
\* empty label list).
C8_AlwaysJoinError ==
    op = "align" /\ SameRank /\ GoodLength /\ HasBogus /\ NonEmptyLabels /\ Terminal
    => pc = "error" /\ err = JoinError

\* C8 (amended): such a call never returns an output; it raises 'join type
\* not recognized' at the first unrecognized axis, unless an earlier axis
\* already failed in its gather (index error) or its fill (type error), and
\* then that error is what is raised.
C8_JoinErrorUnlessEarlier ==
    op = "align" /\ SameRank /\ GoodLength /\ HasBogus =>
        /\ pc \notin {"make", "done"}
        /\ lar3 = NoLarry /\ lar4 = NoLarry
        /\ pc = "error" =>
              \/ err = JoinError /\ ax + 1 = FirstBogus
              \/ err \in {"TypeError: fill", "IndexError"} /\ ax + 1 < FirstBogus

\* C8 witness: a rank-2 call gathered axis 0 and raised on the
\* unrecognized mode of axis 1.
C8_Witness ==
    /\ op = "align" /\ SameRank /\ GoodLength /\ HasBogus
    /\ ndim = 2 /\ FirstBogus = 2 /\ L1(1) # L2(1)
    /\ pc = "error" /\ err = JoinError /\ fresh # {}

ArgLabels(i) == Range(args[i].label[axis + 1])
AllLarrys == \A i \in DOMAIN args : args[i].islarry

\* C9 (as claimed): union and intersection end in a type error whenever any
\* argument, the first included, is not a larry, and otherwise return the
\* ascending, duplicate-free union / intersection of the arguments' labels.
C9_TypeErrorForAnyNonLarry ==
    op \in {"union", "intersection"} /\ Terminal =>
        IF ~AllLarrys
        THEN pc = "error" /\ err = "TypeError: not a larry"
        ELSE /\ pc = "done"
             /\ op = "union" =>
                    IsSortedSet(rc, UNION {ArgLabels(i) : i \in DOMAIN args})
             /\ op = "intersection" =>
                    IsSortedSet(rc, {v \in Labels : \A i \in DOMAIN args : v \in ArgLabels(i)})

Extent(x, a) == heap[x].shape[a]

\* C10: in the loop, every processed axis of both working buffers has the
\* length of that axis's output label list and every other axis its input's
\* extent; the returned larrys have the inputs' rank, equal label lists, and
\* buffers whose extents are the lengths of their label lists.
C10_Extents ==
    /\ op = "align" /\ pc \in {"loop", "make"} =>
        \A a \in Axes :
            IF a <= ax
            THEN Extent(x1, a) = Len(label[a].items) /\ Extent(x2, a) = Len(label[a].items)
            ELSE Extent(x1, a) = Len(L1(a)) /\ Extent(x2, a) = Len(L2(a))
    /\ Done =>
        /\ Len(lar3.label) = ndim /\ Len(lar4.label) = ndim
        /\ \A k \in {1, 2} :
            LET out == heap[Out(k).x]
            IN  /\ Len(out.shape) = ndim
                /\ DOMAIN out.data = Idx(out.shape)
                /\ \A a \in Axes : out.shape[a] = Len(Out(k).label[a].items)
        /\ \A a \in Axes : Out3(a) = Out4(a)

\* C10 witness: in a rank-2 call, after axis 0 both buffers were resized on
\* axis 0 and axis 1 still has its input extent.
C10_Witness ==
    /\ op = "align" /\ pc = "loop" /\ ndim = 2 /\ ax = 1
    /\ Extent(x1, 1) # Len(L1(1)) /\ Extent(x2, 1) # Len(L2(1))
    /\ Extent(x1, 2) = Len(L1(2)) /\ Len(L1(2)) > 0

\* C11 (as claimed): every index align passes to a take along an axis is a
\* position of the buffer being gathered, 0 <= index < extent on that axis,
\* the placeholder 0 for a label the source lacks included, also when the
\* source's label list on that axis is empty.
C11_TakeIndicesValid ==
    \A t \in takes : \A i \in DOMAIN t.idx : t.idx[i] >= 0 /\ t.idx[i] < t.extent

====
